---- MODULE Spec2Model ----
(***************************************************************************)
(* The resolver layer of AppsyncCdkChatAppStack                            *)
(* (lib/appsync-cdk-chat-app-stack.ts): the stack's constructor, the four  *)
(* resolvers' request and response mapping templates, and the two tables   *)
(* the resolvers read and write.                                           *)
(*                                                                         *)
(* A resolver invocation has two steps.  The request mapping template is   *)
(* evaluated on the arguments and the caller's identity and its output     *)
(* text is parsed as one operation document; then the table executes the   *)
(* document atomically and the response mapping template turns the table's *)
(* result or error into the response.  Two callers may have an invocation  *)
(* in flight at the same time.                                             *)
(*                                                                         *)
(* An optional value is a sequence of length at most one: None is the      *)
(* absent (null) value, Some(v) the present one.                           *)
(***************************************************************************)
EXTENDS Integers, Sequences, FiniteSets, TLC

\* ------------------------------------------------------------------ bounds
MaxId == 1          \* ids a caller supplies are 1..MaxId
MaxAutoId == 1      \* generated ids are MaxId+1 .. MaxId+MaxAutoId
MaxClock == 1       \* the wall clock reads an instant of 0..MaxClock
MaxLimit == 1       \* limits a caller passes to listRooms are 1..MaxLimit

\* --------------------------------------------------------------- constants
DefaultLimit == 1000

None == <<>>
Some(v) == <<v>>

Users == {"alice", "bob"}
CallerIds == 1 .. MaxId
AutoIds == (MaxId + 1) .. (MaxId + MaxAutoId)
Instants == 0 .. MaxClock
Names == {"general", "random"}
SortDirections == {"ASC", "DESC"}
Limits == 1 .. MaxLimit

Opt(S) == {None} \cup {Some(x) : x \in S}

\* $util.time.nowISO8601(): the instant of the request as an ISO-8601 string.
NowISO8601(now) == [format |-> "ISO8601", instant |-> now]

\* $util.defaultIfNull(value, default)
DefaultIfNull(value, default) == IF value = None THEN default ELSE value[1]

\* $util.isNull(value)
IsNull(value) == value = None

\* The inputs the schema lets a caller pass.
MessageInputs ==
  [id : Opt(CallerIds), createdAt : Opt({NowISO8601(0)}),
   owner : Opt(Users), roomId : {1}]
RoomInputs == [id : Opt(CallerIds), name : Names]

\* ------------------------------------------------------------- constructor
\* The constructs the constructor declares, in order; an output is a
\* CfnOutput, every other one adds resources to the template.
Declarations ==
  << [kind |-> "resource", id |-> "realtime-chat-app"],
     [kind |-> "resource", id |-> "UserPoolClient"],
     [kind |-> "output",   id |-> "UserPoolId"],
     [kind |-> "output",   id |-> "UserPoolClientId"],
     [kind |-> "resource", id |-> "ChatMessageTable"],
     [kind |-> "resource", id |-> "ChatRoomTable"],
     [kind |-> "resource", id |-> "MessageTableServiceRole"],
     [kind |-> "resource", id |-> "reacltime-chat-app-api"],
     [kind |-> "output",   id |-> "GraphQLAPIURL"],
     [kind |-> "resource", id |-> "Message"],
     [kind |-> "resource", id |-> "Room"],
     [kind |-> "resource", id |-> "listMessageForRoom"],
     [kind |-> "resource", id |-> "createMessage"],
     [kind |-> "resource", id |-> "listRooms"],
     [kind |-> "resource", id |-> "createRoom"] >>

\* The key schema of the message table: the partition key id and one global
\* secondary index.
MessageTableKey == "id"
MessageTableIndexes ==
  { [indexName |-> "message-by-room-id", partitionKey |-> "roomId",
     sortKey |-> "createdAt"] }

\* -------------------------------------------------- request mapping templates
\* The output of a request template: the text it emits outside the
\* operation document (pre, empty when it emits none) and the document.

\* Query.listMessageForRoom
ListMessageForRoomRequest(args) ==
  [pre |-> <<>>,
   doc |-> [version |-> "2017-02-28",
            operation |-> "Query",
            index |-> None,
            query |-> [expression |-> "roomId = :roomId",
                       attribute |-> "roomId",
                       expressionValue |-> args.roomId],
            scanIndexForward |->
              IF ~IsNull(args.sortDirection) /\ args.sortDirection = Some("DESC")
              THEN FALSE ELSE TRUE,
            nextToken |-> args.nextToken]]

\* createMessage with the owner put only when the input has no owner.
CreateMessageRequest_KeepOwner(input, username, autoId, now) ==
  LET in1 == [input EXCEPT !.id = Some(DefaultIfNull(input.id, autoId))]
      in2 == [in1 EXCEPT
                !.createdAt = Some(DefaultIfNull(in1.createdAt, NowISO8601(now)))]
      in3 == [in2 EXCEPT !.owner = Some(DefaultIfNull(in2.owner, username))]
  IN [pre |-> << [text |-> "util.qr(", value |-> None],
                 [text |-> "", value |-> in1.createdAt],
                 [text |-> ")", value |-> None] >>,
      doc |-> [version |-> "2018-05-29",
               operation |-> "PutItem",
               key |-> in3.id[1],
               attributeValues |-> in3,
               condition |-> Some([expression |-> "attribute_not_exists(#id)",
                                   expressionNames |-> "id"])]]

\* Mutation.createMessage.  The second put is written util.qr(...) without
\* the leading $: the put still runs, and the text util.qr( , the value the
\* put returns (the previous createdAt) and ) are emitted before the document.
CreateMessageRequest(input, username, autoId, now) ==
  LET in1 == [input EXCEPT !.id = Some(DefaultIfNull(input.id, autoId))]
      createdAt == NowISO8601(now)
      returned == in1.createdAt
      in2 == [in1 EXCEPT
                !.createdAt = Some(DefaultIfNull(in1.createdAt, createdAt))]
      in3 == [in2 EXCEPT !.owner = Some(username)]
      condition == [expression |-> "attribute_not_exists(#id)",
                    expressionNames |-> "id"]
  IN [pre |-> << [text |-> "util.qr(", value |-> None],
                 [text |-> "", value |-> returned],
                 [text |-> ")", value |-> None] >>,
      doc |-> [version |-> "2018-05-29",
               operation |-> "PutItem",
               key |-> in3.id[1],
               attributeValues |-> in3,
               condition |-> Some(condition)]]

\* listRooms without the nextToken of the arguments.
ListRoomsRequest_DropToken(args) ==
  [pre |-> <<>>,
   doc |-> [version |-> "2018-05-29",
            limit |-> DefaultIfNull(args.limit, DefaultLimit),
            nextToken |-> None,
            operation |-> "Scan"]]

\* Query.listRooms
ListRoomsRequest(args) ==
  LET limit == DefaultIfNull(args.limit, DefaultLimit)
  IN [pre |-> <<>>,
      doc |-> [version |-> "2018-05-29",
               limit |-> limit,
               nextToken |-> args.nextToken,
               operation |-> "Scan"]]

\* Mutation.createRoom.  $condition is never set in this template, so
\* $util.toJson($condition) emits null.
CreateRoomRequest(input, autoId) ==
  LET in1 == [input EXCEPT !.id = Some(DefaultIfNull(input.id, autoId))]
  IN [pre |-> <<>>,
      doc |-> [version |-> "2018-05-29",
               operation |-> "PutItem",
               key |-> in1.id[1],
               attributeValues |-> in1,
               condition |-> None]]

\* ------------------------------------------------- response mapping templates
\* The response of an invocation: data (None is null) and the error raised.
Response(data, error) == [data |-> data, error |-> error]

\* #if($ctx.error) $util.error($ctx.error.message, $ctx.error.type)
\* #else $util.toJson($ctx.result) #end
PassThroughResponse(ctx) ==
  IF ctx.error # None
  THEN Response(None, Some([message |-> ctx.error[1].message,
                            type |-> ctx.error[1].type]))
  ELSE Response(ctx.result, None)

\* MappingTemplate.dynamoDbResultItem(): $util.toJson($ctx.result)
DynamoDbResultItem(ctx) == Response(ctx.result, None)

ResponseTemplate(field, ctx) ==
  CASE field = "listMessageForRoom" -> PassThroughResponse(ctx)
    [] field = "createMessage"      -> DynamoDbResultItem(ctx)
    [] field = "listRooms"          -> PassThroughResponse(ctx)
    [] field = "createRoom"         -> DynamoDbResultItem(ctx)

\* A document of version 2017-02-28 has the data source's error added to the
\* response whatever the response template does; from 2018-05-29 on the error
\* reaches the caller only when the response template raises it.
Respond(field, version, ctx) ==
  LET r == ResponseTemplate(field, ctx)
  IN IF version = "2017-02-28" /\ ctx.error # None /\ r.error = None
     THEN Response(r.data, ctx.error)
     ELSE r

\* ------------------------------------------------------------------ tables
\* The items of a set as a sequence in ascending order of key[item]; key is
\* injective on the set.
SortBy(items, key) ==
  [i \in 1 .. Cardinality(items) |->
     CHOOSE x \in items :
       Cardinality({y \in items : key[y] < key[x]}) = i - 1]

Reverse(s) == [i \in 1 .. Len(s) |-> s[Len(s) + 1 - i]]

ItemId(item) == item.id[1]

\* The order of the index message-by-room-id within one roomId: createdAt,
\* and the primary key among equal createdAt.
IndexKey(item) == item.createdAt[1].instant * (MaxId + MaxAutoId + 1) + ItemId(item)

\* The items of seq after the one with id token[1]; all of seq without a token.
After(seq, token) ==
  IF token = None THEN seq
  ELSE LET rest == {i \in 1 .. Len(seq) : ItemId(seq[i]) = token[1]}
       IN IF rest = {} THEN seq
          ELSE SubSeq(seq, (CHOOSE i \in rest : TRUE) + 1, Len(seq))

StoreError(message, type) == Some([message |-> message, type |-> type])

\* Query on the message table.  Without an index the key condition must be
\* on the table's own partition key; with the index it is on the index's.
QueryResult(doc, table) ==
  LET keys == IF doc.index = None THEN {MessageTableKey}
              ELSE {x.partitionKey : x \in
                     {y \in MessageTableIndexes : y.indexName = doc.index[1]}}
  IN IF doc.query.attribute \notin keys
     THEN [error |-> StoreError("Query condition missed key schema element",
                                "DynamoDB:DynamoDbException"),
           result |-> None]
     ELSE LET match == {m \in table : m.roomId = doc.query.expressionValue}
              asc == SortBy(match, [m \in match |-> IndexKey(m)])
              all == IF doc.scanIndexForward THEN asc ELSE Reverse(asc)
          IN [error |-> None,
              result |-> Some([items |-> After(all, doc.nextToken),
                               nextToken |-> None])]

\* Scan on the room table: at most doc.limit items in the table's order from
\* the cursor on.  more says whether the table returns a cursor when the page
\* ends exactly at the last item.
ScanResult(doc, table, more) ==
  LET rest == After(SortBy(table, [r \in table |-> ItemId(r)]), doc.nextToken)
      n == IF Len(rest) < doc.limit THEN Len(rest) ELSE doc.limit
      page == SubSeq(rest, 1, n)
      cursor == IF n = 0 THEN None
                ELSE IF Len(rest) > n \/ (more /\ n = doc.limit)
                THEN Some(ItemId(page[n])) ELSE None
  IN [error |-> None,
      result |-> Some([items |-> page, nextToken |-> cursor])]

\* PutItem: with the condition attribute_not_exists(id) an item of the same
\* key fails the write and $ctx.result is the stored item; without a
\* condition the item replaces any item of the same key.
PutItemFails(doc, table) ==
  doc.condition # None /\ \E m \in table : ItemId(m) = doc.key

PutItemResult(doc, table) ==
  IF PutItemFails(doc, table)
  THEN [error |-> StoreError("The conditional request failed",
                             "DynamoDB:ConditionalCheckFailedException"),
        result |-> Some(CHOOSE m \in table : ItemId(m) = doc.key)]
  ELSE [error |-> None, result |-> Some(doc.attributeValues)]

PutItemTable(doc, table) ==
  IF PutItemFails(doc, table) THEN table
  ELSE {m \in table : ItemId(m) # doc.key} \cup {doc.attributeValues}

\* ------------------------------------------------------------------- state
VARIABLES
  constructed,    \* the constructor has run
  template,       \* the synthesized template: Resources and Outputs
  nullCondition,  \* what the service does with "condition": null
  messages,       \* the items of ChatMessageTable
  rooms,          \* the items of ChatRoomTable
  createdBy,      \* for each stored message id, the caller that created it
  calls,          \* per caller, the invocation in flight or last finished
  walk            \* a client paging through listRooms

vars == <<constructed, template, nullCondition, messages, rooms, createdBy,
          calls, walk>>

IdleCall == [phase |-> "idle"]
IdleWalk == [state |-> "idle"]

Busy(u) == calls[u].phase = "requested"
Walking(u) == walk.state \in {"ready", "waiting"} /\ walk.client = u

\* Ids no stored item and no invocation in flight has: $util.autoId()
\* returns a UUID, which differs from all of them.
UsedIds ==
  {ItemId(m) : m \in messages \cup rooms}
    \cup {calls[u].out.doc.key :
            u \in {v \in Users : calls[v].phase = "requested"
                                 /\ calls[v].field \in {"createMessage", "createRoom"}}}
FreshIds == AutoIds \ UsedIds

Init ==
  /\ constructed = FALSE
  /\ template = [Resources |-> {}, Outputs |-> {}]
  /\ nullCondition \in {"absent", "invalid"}
  /\ messages = {}
  /\ rooms = {}
  /\ createdBy = [i \in {} |-> "alice"]
  /\ calls = [u \in Users |-> IdleCall]
  /\ walk = IdleWalk

Constructor ==
  /\ ~constructed
  /\ constructed' = TRUE
  /\ template' =
       [Resources |-> {Declarations[i].id : i \in
                        {j \in 1 .. Len(Declarations) : Declarations[j].kind = "resource"}},
        Outputs |-> {Declarations[i].id : i \in
                        {j \in 1 .. Len(Declarations) : Declarations[j].kind = "output"}}]
  /\ UNCHANGED <<nullCondition, messages, rooms, createdBy, calls, walk>>

\* The service parses the template's output as one JSON document: text
\* outside the document makes it unparseable, and the invocation ends with
\* a mapping template error without reaching the table.
Malformed(out) ==
  \/ out.pre # <<>>
  \/ /\ out.doc.operation = "PutItem"
     /\ out.doc.condition = None
     /\ nullCondition = "invalid"

MappingError ==
  Some([message |-> "Unable to parse the JSON document",
        type |-> "MappingTemplate"])

\* An invocation after its request template gave out.
Requested(field, args, out) ==
  IF Malformed(out)
  THEN [phase |-> "done", field |-> field, args |-> args, out |-> out,
        reached |-> FALSE, fault |-> FALSE, error |-> None,
        response |-> Response(None, MappingError)]
  ELSE [phase |-> "requested", field |-> field, args |-> args, out |-> out]

Invoke(u, field, args, out) ==
  /\ constructed
  /\ ~Busy(u)
  /\ calls' = [calls EXCEPT ![u] = Requested(field, args, out)]
  /\ UNCHANGED <<constructed, template, nullCondition, messages, rooms,
                 createdBy>>

ListMessageForRoom(u) ==
  \E roomId \in {1}, sortDirection \in Opt(SortDirections),
     nextToken \in Opt({1}) :
    LET args == [roomId |-> roomId, sortDirection |-> sortDirection,
                 nextToken |-> nextToken]
    IN /\ ~Walking(u)
       /\ Invoke(u, "listMessageForRoom", args, ListMessageForRoomRequest(args))
       /\ UNCHANGED walk

CreateMessage(u) ==
  \E input \in MessageInputs, autoId \in FreshIds, now \in Instants :
    /\ ~Walking(u)
    /\ Invoke(u, "createMessage", [input |-> input],
              CreateMessageRequest(input, u, autoId, now))
    /\ UNCHANGED walk

CreateRoomOf(u, inputs) ==
  \E input \in inputs, autoId \in FreshIds :
    /\ ~Walking(u)
    /\ Invoke(u, "createRoom", [input |-> input],
              CreateRoomRequest(input, autoId))
    /\ UNCHANGED walk

CreateRoom(u) == CreateRoomOf(u, RoomInputs)

\* The first page of a walk through listRooms.
ListRoomsFirst(u) ==
  \E limit \in Opt(Limits) :
    LET args == [limit |-> limit, nextToken |-> None]
    IN /\ walk.state \in {"idle", "done"}
       /\ Invoke(u, "listRooms", args, ListRoomsRequest(args))
       /\ walk' = [state |-> "waiting", client |-> u, limit |-> limit,
                   token |-> None, pages |-> <<>>, dirty |-> FALSE]

\* The next page: the client passes the nextToken of the previous response.
ListRoomsNext(u) ==
  LET args == [limit |-> walk.limit, nextToken |-> walk.token]
  IN /\ walk.state = "ready"
     /\ walk.client = u
     /\ Invoke(u, "listRooms", args, ListRoomsRequest(args))
     /\ walk' = [walk EXCEPT !.state = "waiting"]

\* The answer of the resolver's data source to the document: the resolvers
\* of listMessageForRoom and createMessage are created on the data source of
\* the message table, those of listRooms and createRoom on the room table's.
TableResult(field, doc, more) ==
  CASE field = "listMessageForRoom" -> QueryResult(doc, messages)
    [] field = "createMessage"      -> PutItemResult(doc, messages)
    [] field = "listRooms"          -> ScanResult(doc, rooms, more)
    [] field = "createRoom"         -> PutItemResult(doc, rooms)

Finished(c, fault, ctx) ==
  [phase |-> "done", field |-> c.field, args |-> c.args, out |-> c.out,
   reached |-> TRUE, fault |-> fault, error |-> ctx.error,
   response |-> Respond(c.field, c.out.doc.version, ctx)]

\* The walk after the response r to its listRooms call.
WalkAfter(r) ==
  IF r.error # None \/ r.data = None
  THEN [walk EXCEPT !.state = "ready"]
  ELSE [walk EXCEPT
          !.pages = Append(@, [i \in 1 .. Len(r.data[1].items) |->
                                 ItemId(r.data[1].items[i])]),
          !.token = r.data[1].nextToken,
          !.state = IF r.data[1].nextToken = None THEN "done" ELSE "ready"]

\* The table executes the document of u's invocation and the response
\* template answers.
Execute(u) ==
  /\ Busy(u)
  /\ \E more \in BOOLEAN :
     \E ctx \in {TableResult(calls[u].field, calls[u].out.doc, more)} :
     \E done \in {Finished(calls[u], FALSE, ctx)} :
       LET field == calls[u].field
           doc == calls[u].out.doc
           put == doc.operation = "PutItem" /\ ctx.error = None
       IN /\ calls' = [calls EXCEPT ![u] = done]
          /\ messages' = IF field = "createMessage"
                         THEN PutItemTable(doc, messages) ELSE messages
          /\ rooms' = IF field = "createRoom"
                      THEN PutItemTable(doc, rooms) ELSE rooms
          /\ createdBy' = IF field = "createMessage" /\ put
                          THEN [i \in DOMAIN createdBy \cup {doc.key} |->
                                  IF i = doc.key THEN u ELSE createdBy[i]]
                          ELSE createdBy
          /\ walk' = IF field = "listRooms" THEN WalkAfter(done.response)
                     ELSE IF field = "createRoom" /\ put /\ walk.state # "idle"
                     THEN [walk EXCEPT !.dirty = TRUE]
                     ELSE walk
          /\ UNCHANGED <<constructed, template, nullCondition>>

\* The table fails the operation of u's invocation (throttling, an outage)
\* and the response template answers.
Throttled ==
  [error |-> StoreError("Throughput exceeds the current capacity",
                        "DynamoDB:ProvisionedThroughputExceededException"),
   result |-> None]

Fault(u) ==
  /\ Busy(u)
  /\ \E done \in {Finished(calls[u], TRUE, Throttled)} :
       /\ calls' = [calls EXCEPT ![u] = done]
       /\ walk' = IF calls[u].field = "listRooms"
                  THEN WalkAfter(done.response) ELSE walk
       /\ UNCHANGED <<constructed, template, nullCondition, messages, rooms,
                      createdBy>>

Next ==
  \/ Constructor
  \/ \E u \in Users : ListMessageForRoom(u)
  \/ \E u \in Users : CreateMessage(u)
  \/ \E u \in Users : CreateRoom(u)
  \/ \E u \in Users : ListRoomsFirst(u)
  \/ \E u \in Users : ListRoomsNext(u)
  \/ \E u \in Users : Execute(u)
  \/ \E u \in Users : Fault(u)

Spec == Init /\ [][Next]_vars

\* The two tables share nothing: the resolvers of the message table are also
\* checked on their own.
NextMessages ==
  \/ Constructor
  \/ \E u \in Users : ListMessageForRoom(u)
  \/ \E u \in Users : CreateMessage(u)
  \/ \E u \in Users : Execute(u)
  \/ \E u \in Users : Fault(u)

SpecMessages == Init /\ [][NextMessages]_vars

\* A client paging through listRooms while rooms are created; the rooms all
\* have one name, the pages depending on their ids alone.  The client goes on
\* to the next page when it has a nextToken, and the table, which may fail
\* any operation, does not fail a repeated operation for ever.
WalkRoomInputs == {input \in RoomInputs : input.name = "general"}

NextWalk ==
  \/ Constructor
  \/ \E u \in Users : CreateRoomOf(u, WalkRoomInputs)
  \/ \E u \in Users : ListRoomsFirst(u)
  \/ \E u \in Users : ListRoomsNext(u)
  \/ \E u \in Users : Execute(u)
  \/ \E u \in Users : Fault(u)

FairSpecWalk ==
  /\ Init
  /\ [][NextWalk]_vars
  /\ \A u \in Users : WF_vars(ListRoomsNext(u)) /\ SF_vars(Execute(u))

TypeOK ==
  /\ constructed \in BOOLEAN
  /\ nullCondition \in {"absent", "invalid"}
  /\ \A m \in messages : ItemId(m) \in CallerIds \cup AutoIds
  /\ \A r \in rooms : ItemId(r) \in CallerIds \cup AutoIds
  /\ \A u \in Users : calls[u].phase \in {"idle", "requested", "done"}
  /\ walk.state \in {"idle", "ready", "waiting", "done"}

\* ------------------------------------------------------------------ claims
Evaluated(u, field) == calls[u].phase # "idle" /\ calls[u].field = field
Done(u, field) == calls[u].phase = "done" /\ calls[u].field = field
\* The invocation ended without a failure of the table itself.
NoFault(u) == ~calls[u].fault
Succeeded(u) == calls[u].response.error = None
Rejected(u) == calls[u].response.error # None

C2_ExactlyOneCreateMessageSucceeds ==
  /\ \A u, v \in Users :
       ( /\ u # v
         /\ Done(u, "createMessage") /\ Done(v, "createMessage")
         /\ NoFault(u) /\ NoFault(v)
         /\ calls[u].args.input.id # None
         /\ calls[u].args.input.id = calls[v].args.input.id )
       => ( (Succeeded(u) /\ Rejected(v)) \/ (Rejected(u) /\ Succeeded(v)) )
  /\ \A m, n \in messages : ItemId(m) = ItemId(n) => m = n

\* C3: of two createRoom calls with the same explicit id that the table did
\* not fail, exactly one succeeds and one is rejected, and a stored room is
\* never replaced.
C3_ExactlyOneCreateRoomSucceeds ==
  \A u, v \in Users :
    ( /\ u # v
      /\ Done(u, "createRoom") /\ Done(v, "createRoom")
      /\ NoFault(u) /\ NoFault(v)
      /\ calls[u].args.input.id # None
      /\ calls[u].args.input.id = calls[v].args.input.id )
    => ( (Succeeded(u) /\ Rejected(v)) \/ (Rejected(u) /\ Succeeded(v)) )

\* C4: whenever the table reports an error to an invocation, the response
\* carries that error's message and type.
C4_StoreErrorReachesCaller ==
  \A u \in Users :
    (calls[u].phase = "done" /\ calls[u].error # None)
      => calls[u].response.error = calls[u].error

\* The messages of a room in ascending createdAt order.
MessagesOfRoom(roomId) ==
  LET match == {m \in messages : m.roomId = roomId}
  IN SortBy(match, [m \in match |-> IndexKey(m)])

\* C5: listMessageForRoom without a cursor answers with the messages of the
\* room, ascending by createdAt for ASC or no sortDirection, descending for
\* DESC.
C5_ListMessageForRoomOrdered ==
  \A u \in Users :
    ( /\ Done(u, "listMessageForRoom")
      /\ NoFault(u)
      /\ calls[u].args.nextToken = None )
    => /\ Succeeded(u)
       /\ calls[u].response.data # None
       /\ calls[u].response.data[1].items =
            IF calls[u].args.sortDirection = Some("DESC")
            THEN Reverse(MessagesOfRoom(calls[u].args.roomId))
            ELSE MessagesOfRoom(calls[u].args.roomId)

RECURSIVE Flatten(_)
Flatten(pages) ==
  IF pages = <<>> THEN <<>> ELSE Head(pages) \o Flatten(Tail(pages))

NoDuplicates(seq) ==
  \A i, j \in 1 .. Len(seq) : seq[i] = seq[j] => i = j

WalkPagesOk ==
  /\ (walk.state # "idle" /\ ~walk.dirty) =>
        /\ NoDuplicates(Flatten(walk.pages))
        /\ {Flatten(walk.pages)[i] : i \in 1 .. Len(Flatten(walk.pages))}
             \subseteq {ItemId(r) : r \in rooms}
  /\ walk.state # "idle" =>
        \A i \in 1 .. Len(walk.pages) :
          Len(walk.pages[i]) <= DefaultIfNull(walk.limit, DefaultLimit)
  /\ (walk.state = "done" /\ ~walk.dirty) =>
        {Flatten(walk.pages)[i] : i \in 1 .. Len(Flatten(walk.pages))}
          = {ItemId(r) : r \in rooms}

\* C6: a walk through listRooms, each call passing the nextToken of the
\* previous response, ends with a response without nextToken; with no room
\* written meanwhile its pages hold every stored room exactly once, and no
\* page holds more rooms than the limit (1000 without a limit).
C6_ListRoomsPagination ==
  /\ []WalkPagesOk
  /\ (walk.state \in {"ready", "waiting"}) ~> (walk.state = "done")

\* A walk of more than one page has ended with all rooms and no write.
C6_WalkOfSeveralPagesDone ==
  /\ walk.state = "done"
  /\ ~walk.dirty
  /\ Len(walk.pages) >= 2
  /\ Len(walk.pages[1]) >= 1
  /\ Cardinality(rooms) >= 2

\* C7: a createMessage without id that the table did not fail answers with
\* the stored record, whose id is a generated one, whose createdAt is the
\* supplied one or else an ISO-8601 time, and whose owner is the caller.
C7_CreateMessageAssignsFields ==
  \A u \in Users :
    ( /\ Done(u, "createMessage")
      /\ NoFault(u)
      /\ calls[u].args.input.id = None )
    => /\ Succeeded(u)
       /\ calls[u].response.data # None
       /\ calls[u].response.data[1] \in messages
       /\ ItemId(calls[u].response.data[1]) \in AutoIds
       /\ calls[u].response.data[1].createdAt # None
       /\ calls[u].args.input.createdAt # None =>
            calls[u].response.data[1].createdAt = calls[u].args.input.createdAt

OperationOf(field) ==
  CASE field = "listMessageForRoom" -> "Query"
    [] field = "createMessage"      -> "PutItem"
    [] field = "listRooms"          -> "Scan"
    [] field = "createRoom"         -> "PutItem"

\* C8: every request template emits one operation document of its handler's
\* operation and no text outside it.
C8_OneDocumentAndNothingElse ==
  \A u \in Users :
    calls[u].phase # "idle"
      => /\ calls[u].out.pre = <<>>
         /\ calls[u].out.doc.operation = OperationOf(calls[u].field)

\* C9: the Query of listMessageForRoom names the index message-by-room-id,
\* matches the roomId argument and carries the nextToken argument.
C9_QueryNamesTheIndex ==
  \A u \in Users :
    Evaluated(u, "listMessageForRoom")
      => /\ calls[u].out.doc.index = Some("message-by-room-id")
         /\ calls[u].out.doc.query.expressionValue = calls[u].args.roomId
         /\ calls[u].out.doc.nextToken = calls[u].args.nextToken

\* C10: the template of the constructed stack has no resources.
C10_EmptyStack ==
  constructed => template.Resources = {}

====
